---- MODULE Spec2Model ----
(***************************************************************************)
(* Model of the project pipeline and the interactive question session of   *)
(* hamann-ai-core: api/services/project_processor.py (ProjectProcessor),   *)
(* api/services/brief_processor.py (BriefProcessor) and the handlers of    *)
(* api/routes/projects.py that add state changes of their own.             *)
(*                                                                         *)
(* One project directory is modelled: state.json (st), context.txt,        *)
(* analysis.json, enriched_gaps.json, questions.json, questions_cache.json,*)
(* answers.json, outputs/prd.md, brief.md and prd.md.  Time stamps kept    *)
(* only for display (updated_at, answered_at, ...), the counters           *)
(* gaps_count / questions_count and the flag insights_generated, which no  *)
(* code path reads back, and the files questions.json and backlog.csv/.md, *)
(* which the modelled handlers only write, are left out.  Every external   *)
(* call (model, transcription) is a nondeterministic choice between        *)
(* returning and raising; a failure that the callee catches itself         *)
(* (language detection, section formatting, diagrams, insights) changes    *)
(* no modelled state and is not distinguished from success.                *)
(***************************************************************************)
EXTENDS Integers, Sequences, FiniteSets, TLC

\* ---- bounds of the model ----
MaxAnalyses == 2
MaxRegen == 1
MaxClock == 1
MaxList == 2

\* section keys of the template (src/src/prd_template.py) used in answers
Keys == {"personas_roles", "ux_flows"}
\* answer texts
Texts == {"Admin: Jane", "Admin: Jane, Viewer: Bob"}

VARIABLES
    st,             \* state.json: the ProjectState record
    inputsKind,     \* inputs/ folder: "none", "unsupported" or "supported"
    contextFile,    \* context.txt exists
    analysisSeq,    \* number of analyses persisted so far
    analysisFile,   \* analysis.json: [exists, id, mtime]
    enrichedCache,  \* enriched_gaps.json: [exists, from, mtime]
    questionsCache, \* questions_cache.json: [exists, basis]
    answersFile,    \* answers.json: [exists, answers, regeneration_count, status]
    outputsPrd,     \* outputs/prd.md exists
    briefFile,      \* brief.md: "none", "empty" or "text"
    briefPrd,       \* prd.md written by the brief conversion exists
    now,            \* wall clock, in seconds
    createdAt,      \* the second the project id was derived from
    overwritten,    \* history: state.json was rewritten by a later create request
    lastOp,         \* history: the handler that ran last and what it returned
    lastSaved,      \* history: per section key, the last successful save_answer
    run,            \* history: the current run of consecutive start(force=false) calls
    pcS, sArg, sSt, sData,   \* a save_answer handler in progress (race specification)
    pcF, fSt, fData,         \* a finalize_session handler in progress (race specification)
    call,           \* a library function applied on its own: its name and arguments
    ret,            \* what the function returned, or raised
    workspace,      \* workspace.json of one workspace
    documents,      \* its documents folder: "unsupported" or "supported" files
    featureStates   \* state.json of the features, by the second of their id

ctxVars == <<inputsKind, contextFile>>
anaVars == <<analysisSeq, analysisFile, enrichedCache>>
sessVars == <<questionsCache, answersFile>>
outVars == <<outputsPrd>>
briefVars == <<briefFile, briefPrd>>
files == <<ctxVars, anaVars, sessVars, outVars, briefVars>>
persisted == <<st, files>>
env == <<now, createdAt, overwritten>>
raceVars == <<pcS, sArg, sSt, sData, pcF, fSt, fData>>
fnVars == <<call, ret>>
projectVars == <<st, files, env, lastOp, lastSaved, run, raceVars>>
wsVars == <<workspace, documents, featureStates>>
vars == <<projectVars, fnVars, wsVars>>

\* ---- ProjectState ----
InitialState ==
    [inputs_processed |-> FALSE, context_generated |-> FALSE,
     gaps_analyzed |-> FALSE, questions_generated |-> FALSE,
     prd_built |-> FALSE, backlog_generated |-> FALSE,
     interactive_session_active |-> FALSE,
     questions_answered_count |-> 0, questions_skipped_count |-> 0]

StageFlags(s) ==
    <<s.inputs_processed, s.context_generated, s.gaps_analyzed,
      s.questions_generated, s.prd_built, s.backlog_generated>>

\* ---- files ----
NoAnalysis == [exists |-> FALSE, id |-> 0, mtime |-> 0]
NoEnriched == [exists |-> FALSE, from |-> 0, mtime |-> 0]
NoQuestions == [exists |-> FALSE, basis |-> 0]
NoAnswers == [exists |-> FALSE, answers |-> <<>>, regeneration_count |-> 0,
              status |-> "in_progress"]
NewAnswersData == [exists |-> TRUE, answers |-> <<>>, regeneration_count |-> 0,
                   status |-> "in_progress"]

AnswerEntry(k, a, sk) == [section_key |-> k, answer |-> a, skipped |-> sk]

\* ---- the workspace before any request (models/workspace.py 103-135) ----
NoWorkspaceAnalysis ==
    [executive_summary |-> "", architecture_overview |-> "",
     tech_stack_recommendation |->
         [exists |-> FALSE, backend |-> <<>>, database |-> <<>>],
     resource_estimation |->
         [exists |-> FALSE, estimated_timeline |-> "", assumptions |-> <<>>],
     identified_features |-> <<>>, suggested_modules |-> <<>>,
     technical_risks |-> <<>>, business_risks |-> <<>>,
     business_objectives |-> <<>>]

NewWorkspace ==
    [analysis_version |-> 1, analysis |-> NoWorkspaceAnalysis,
     analysis_completed |-> FALSE, documents_processed |-> FALSE,
     features |-> <<>>]

WorkspaceIdle ==
    /\ workspace = NewWorkspace
    /\ documents = "supported"
    /\ featureStates = [id \in 0..MaxClock |-> "none"]

\* ---- history records ----
Op(name, res) ==
    [op |-> name, result |-> res, calls |-> {}, cached |-> FALSE, basis |-> 0,
     replaced |-> FALSE]

NoRun == [n |-> 0, prevCalls |-> 0, prevFresh |-> FALSE,
          lastCalls |-> 0, lastFresh |-> FALSE]

\* no library function is applied on its own
NoCall == [fn |-> "none"]

NoArg == AnswerEntry("-", "-", FALSE)

\* ---- counting, as save_answer / get_cached_questions / start do ----
RECURSIVE CountSkipped(_)
CountSkipped(answers) ==
    IF answers = <<>> THEN 0
    ELSE (IF Head(answers).skipped THEN 1 ELSE 0) + CountSkipped(Tail(answers))

CountAnswered(answers) == Len(answers) - CountSkipped(answers)

WithCounts(s, answers) ==
    [s EXCEPT !.questions_answered_count = CountAnswered(answers),
              !.questions_skipped_count = CountSkipped(answers)]

\* ---- what every sequential handler leaves alone ----
Hist(rec) ==
    /\ lastOp' = rec
    /\ run' = NoRun
    /\ UNCHANGED <<lastSaved, env, raceVars, fnVars, wsVars>>

Fail(name, res) ==
    /\ Hist(Op(name, res))
    /\ UNCHANGED persisted

\* ---- process_inputs (project_processor.py 76-113) ----
ProcessInputsStateResetting(s) ==
    [s EXCEPT !.inputs_processed = TRUE, !.context_generated = TRUE,
              !.gaps_analyzed = FALSE]

ProcessInputsState(s) ==
    [s EXCEPT !.inputs_processed = TRUE, !.context_generated = TRUE]

ProcessInputs ==
    \/ /\ inputsKind = "none"
       /\ Fail("process_inputs", "precondition")
    \/ /\ inputsKind = "unsupported"
       /\ Fail("process_inputs", "call_error")
    \/ /\ inputsKind = "supported"
       /\ Hist([Op("process_inputs", "ok") EXCEPT
                  !.calls = {"transcribe", "language"}])
       /\ contextFile' = TRUE
       /\ st' = ProcessInputsState(st)
       /\ UNCHANGED <<inputsKind, anaVars, sessVars, outVars, briefVars>>

\* ---- analyze_gaps (project_processor.py 115-197) ----
AnalyzeGapsPrecondition(s) == s.context_generated

AnalyzeGapsStateEager(s, outcome) == [s EXCEPT !.gaps_analyzed = TRUE]

AnalyzeGapsState(s, outcome) ==
    IF outcome = "ok" THEN [s EXCEPT !.gaps_analyzed = TRUE] ELSE s

\* enriched_gaps.json after analysis.json was rewritten (lines 175-178)
InvalidateEnriched(cache) == NoEnriched

AnalyzeGaps ==
    \/ /\ ~(AnalyzeGapsPrecondition(st) /\ contextFile)
       /\ Fail("analyze_gaps",
               IF ~AnalyzeGapsPrecondition(st) THEN "precondition" ELSE "io_error")
    \/ /\ AnalyzeGapsPrecondition(st)
       /\ contextFile
       /\ \E outcome \in {"ok", "raise"} :
            /\ outcome = "ok" => analysisSeq < MaxAnalyses
            /\ st' = AnalyzeGapsState(st, outcome)
            /\ IF outcome = "ok"
               THEN /\ analysisSeq' = analysisSeq + 1
                    /\ analysisFile' = [exists |-> TRUE, id |-> analysisSeq + 1,
                                        mtime |-> now]
                    /\ enrichedCache' = InvalidateEnriched(enrichedCache)
               ELSE UNCHANGED anaVars
            /\ Hist([Op("analyze_gaps",
                        IF outcome = "ok" THEN "ok" ELSE "call_error") EXCEPT
                        !.calls = {"extract"},
                        !.basis = IF outcome = "ok" THEN analysisSeq + 1 ELSE 0])
       /\ UNCHANGED <<ctxVars, sessVars, outVars, briefVars>>

\* ---- get_gaps (routes/projects.py 408-559) ----
\* the cached enrichment is served when it is at least as new as analysis.json
CacheIsFresh(cache, analysis) == cache.exists /\ cache.mtime >= analysis.mtime

GetGaps ==
    \/ /\ ~(st.gaps_analyzed /\ analysisFile.exists)
       /\ Fail("get_gaps", IF ~st.gaps_analyzed THEN "precondition" ELSE "ok")
    \/ /\ st.gaps_analyzed
       /\ analysisFile.exists
       /\ IF CacheIsFresh(enrichedCache, analysisFile)
          THEN /\ Hist([Op("get_gaps", "ok") EXCEPT
                          !.cached = TRUE, !.basis = enrichedCache.from])
               /\ UNCHANGED persisted
          ELSE /\ Hist([Op("get_gaps", "ok") EXCEPT !.basis = analysisFile.id])
               /\ enrichedCache' = [exists |-> TRUE, from |-> analysisFile.id,
                                    mtime |-> now]
               /\ UNCHANGED <<st, ctxVars, analysisSeq, analysisFile, sessVars,
                              outVars, briefVars>>

\* ---- generate_questions (project_processor.py 199-252) ----
GenerateQuestionsPrecondition(s) == s.gaps_analyzed

GenerateQuestionsState(s, outcome) ==
    IF outcome = "ok" THEN [s EXCEPT !.questions_generated = TRUE] ELSE s

GenerateQuestions ==
    \/ /\ ~(GenerateQuestionsPrecondition(st) /\ analysisFile.exists /\ contextFile)
       /\ Fail("generate_questions",
               IF ~GenerateQuestionsPrecondition(st) THEN "precondition"
               ELSE "io_error")
    \/ /\ GenerateQuestionsPrecondition(st)
       /\ analysisFile.exists /\ contextFile
       /\ \E outcome \in {"ok", "extract_raise", "questions_raise"} :
            /\ st' = GenerateQuestionsState(st, outcome)
            /\ Hist([Op("generate_questions",
                        IF outcome = "ok" THEN "ok" ELSE "call_error") EXCEPT
                        !.calls = IF outcome = "extract_raise" THEN {"extract"}
                                  ELSE {"extract", "questions"}])
       /\ UNCHANGED <<ctxVars, anaVars, sessVars, outVars, briefVars>>

\* ---- build_prd (project_processor.py 254-335) ----
BuildPrdPreconditionNone(s) == TRUE

BuildPrdPrecondition(s) == s.gaps_analyzed

\* outcome "raise": analyze_input raised (line 283); the state is saved
\* (lines 309-311) before insights are generated
BuildPrdState(s, outcome) ==
    IF outcome = "ok" THEN [s EXCEPT !.prd_built = TRUE] ELSE s

BuildPrd ==
    \/ /\ ~(BuildPrdPrecondition(st) /\ contextFile)
       /\ Fail("build_prd",
               IF ~BuildPrdPrecondition(st) THEN "precondition" ELSE "io_error")
    \/ /\ BuildPrdPrecondition(st)
       /\ contextFile
       /\ \E outcome \in {"ok", "raise"} :
            /\ st' = BuildPrdState(st, outcome)
            /\ outputsPrd' = (outputsPrd \/ outcome = "ok")
            /\ Hist([Op("build_prd",
                        IF outcome = "raise" THEN "call_error" ELSE "ok") EXCEPT
                        !.calls = IF outcome = "raise" THEN {"extract"}
                                  ELSE {"extract", "format", "diagrams", "insights"}])
       /\ UNCHANGED <<ctxVars, anaVars, sessVars, briefVars>>

\* ---- generate_backlog (project_processor.py 337-384) ----
GenerateBacklogPrecondition(s) == s.prd_built

GenerateBacklogState(s, outcome) ==
    IF outcome = "ok" THEN [s EXCEPT !.backlog_generated = TRUE] ELSE s

GenerateBacklog ==
    \/ /\ ~GenerateBacklogPrecondition(st)
       /\ Fail("generate_backlog", "precondition")
    \/ /\ GenerateBacklogPrecondition(st)
       /\ ~outputsPrd
       /\ Fail("generate_backlog", "io_error")
    \/ /\ GenerateBacklogPrecondition(st)
       /\ outputsPrd
       /\ \E outcome \in {"ok", "raise"} :
            /\ st' = GenerateBacklogState(st, outcome)
            /\ Hist([Op("generate_backlog",
                        IF outcome = "raise" THEN "call_error" ELSE "ok") EXCEPT
                        !.calls = IF outcome = "raise" THEN {"backlog"}
                                  ELSE {"backlog", "insights"}])
       /\ UNCHANGED <<ctxVars, anaVars, sessVars, outVars, briefVars>>

\* ---- interactive session (project_processor.py 386-659) ----
StartPreconditionNone(s) == TRUE

StartPrecondition(s) == s.gaps_analyzed

UseCacheNever(force, cacheExists) == FALSE

\* line 440: the cache is used unless regeneration is forced
UseCache(force, cacheExists) == ~force /\ cacheExists

LoadOrCreateAnswersAnew(af) == NewAnswersData

\* lines 449-461: the session record the generating path works on; it is
\* written to answers.json when it did not exist
LoadOrCreateAnswers(af) == IF af.exists THEN af ELSE NewAnswersData

\* lines 404-407: get_cached_questions reads answers.json, or uses a default
\* it does not write
CachedAnswersData(af) == IF af.exists THEN af ELSE NewAnswersData

SessionState(s, answers) ==
    [WithCounts(s, answers) EXCEPT !.interactive_session_active = TRUE]

\* regenerate_questions_with_context(context, previous_answers, ...): one
\* question-generation call that returns questions or raises
RegenerateQuestionsWithContext == {"ok", "raise"}

NextRun(r, calls, fresh) ==
    IF r.n = 0
    THEN [n |-> 1, prevCalls |-> 0, prevFresh |-> FALSE,
          lastCalls |-> calls, lastFresh |-> fresh]
    ELSE [n |-> 2, prevCalls |-> r.lastCalls, prevFresh |-> r.lastFresh,
          lastCalls |-> calls, lastFresh |-> fresh]

\* start_interactive_session(force_regenerate = force), entered with af in
\* answers.json; name is the handler it runs for
StartBody(name, force, af) ==
    LET rec(res) == Op(name, res)
        inRun == (name = "start" /\ ~force)
    IN
    /\ UNCHANGED <<lastSaved, env, raceVars, fnVars, wsVars>>
    /\ UNCHANGED <<ctxVars, anaVars, outVars, briefVars>>
    /\ IF ~StartPrecondition(st)
       THEN /\ lastOp' = rec("precondition")
            /\ run' = NoRun
            /\ answersFile' = af
            /\ UNCHANGED <<st, questionsCache>>
       ELSE IF UseCache(force, questionsCache.exists)
       THEN /\ lastOp' = [rec("ok") EXCEPT !.cached = TRUE,
                                           !.basis = questionsCache.basis]
            /\ run' = IF inRun THEN NextRun(run, 0, FALSE) ELSE NoRun
            /\ st' = SessionState(st, CachedAnswersData(af).answers)
            /\ answersFile' = af
            /\ UNCHANGED questionsCache
       ELSE IF ~contextFile
       THEN /\ lastOp' = rec("io_error")
            /\ run' = NoRun
            /\ answersFile' = LoadOrCreateAnswers(af)
            /\ UNCHANGED <<st, questionsCache>>
       ELSE \E outcome \in RegenerateQuestionsWithContext :
            /\ answersFile' = LoadOrCreateAnswers(af)
            /\ IF outcome = "raise"
               THEN /\ lastOp' = [rec("call_error") EXCEPT !.calls = {"questions"}]
                    /\ run' = NoRun
                    /\ UNCHANGED <<st, questionsCache>>
               ELSE /\ questionsCache' = [exists |-> TRUE,
                                          basis |-> analysisFile.id]
                    /\ st' = SessionState(st, LoadOrCreateAnswers(af).answers)
                    /\ lastOp' = [rec("ok") EXCEPT !.calls = {"questions"},
                                                   !.basis = analysisFile.id]
                    /\ run' = IF inRun
                              THEN NextRun(run, 1, ~questionsCache.exists)
                              ELSE NoRun

\* GET interactive-questions/session (routes/projects.py 695-711)
StartInteractiveSession == StartBody("start", FALSE, answersFile)

\* POST interactive-questions/regenerate (routes/projects.py 744-779)
BumpRegenerationNone(af) == af

BumpRegeneration(af) ==
    IF af.exists THEN [af EXCEPT !.regeneration_count = @ + 1] ELSE af

RegenerateInteractiveQuestions ==
    /\ answersFile.regeneration_count < MaxRegen
    /\ StartBody("regenerate", TRUE, BumpRegeneration(answersFile))

\* ---- save_answer (project_processor.py 539-594) ----
SessionStarted(af) == af.exists

\* lines 556-560: index of the first record with this section key, 0 if none
RECURSIVE IndexFrom(_, _, _)
IndexFrom(answers, k, i) ==
    IF i > Len(answers) THEN 0
    ELSE IF answers[i].section_key = k THEN i
    ELSE IndexFrom(answers, k, i + 1)

UpsertAppending(answers, entry) == Append(answers, entry)

\* lines 572-576: update or append
Upsert(answers, entry) ==
    LET idx == IndexFrom(answers, entry.section_key, 1)
    IN IF idx # 0 THEN [answers EXCEPT ![idx] = entry] ELSE Append(answers, entry)

SaveAnswerData(af, entry) ==
    [af EXCEPT !.exists = TRUE, !.answers = Upsert(af.answers, entry)]

\* save_answer with its arguments drawn from the keys K and the texts T
SaveAnswerOf(K, T) ==
    \E k \in K, a \in T, sk \in BOOLEAN :
      LET entry == AnswerEntry(k, a, sk)
          rec(res) == Op("save_answer", res)
      IN
      /\ run' = NoRun
      /\ UNCHANGED <<env, raceVars, fnVars, wsVars>>
      /\ UNCHANGED <<ctxVars, anaVars, questionsCache, outVars, briefVars>>
      /\ IF ~SessionStarted(answersFile)
         THEN /\ lastOp' = rec("precondition")
              /\ UNCHANGED <<st, answersFile, lastSaved>>
         ELSE /\ answersFile' = SaveAnswerData(answersFile, entry)
              /\ st' = WithCounts(st, SaveAnswerData(answersFile, entry).answers)
              /\ lastSaved' = [lastSaved EXCEPT ![k] = entry]
              /\ lastOp' = [rec("ok") EXCEPT
                              !.replaced = (IndexFrom(answersFile.answers, k, 1) # 0)]

SaveAnswer == SaveAnswerOf(Keys, Texts)

\* ---- finalize_session (project_processor.py 625-659) ----
FinalizeData(af) == [af EXCEPT !.status = "completed"]

FinalizeState(s) ==
    [s EXCEPT !.interactive_session_active = FALSE, !.questions_generated = TRUE]

FinalizeSession ==
    \/ /\ ~SessionStarted(answersFile)
       /\ Fail("finalize_session", "precondition")
    \/ /\ SessionStarted(answersFile)
       /\ answersFile' = FinalizeData(answersFile)
       /\ st' = FinalizeState(st)
       /\ Hist(Op("finalize_session", "ok"))
       /\ UNCHANGED <<ctxVars, anaVars, questionsCache, outVars, briefVars>>

\* ---- brief flow (brief_processor.py 70-122, 248-275) ----
\* the brief is written (line 97) before the readiness call, which may
\* raise; the text returned by the model may be empty after strip()
GenerateInitialBrief ==
    \E outcome \in {"ok", "raise", "readiness_raise"}, content \in {"empty", "text"} :
      /\ briefFile' = IF outcome = "raise" THEN briefFile ELSE content
      /\ Hist([Op("generate_brief",
                  IF outcome = "ok" THEN "ok" ELSE "call_error") EXCEPT
                  !.calls = {"brief"}])
      /\ UNCHANGED <<st, ctxVars, anaVars, sessVars, outVars, briefPrd>>

ConvertBriefState(s) == [s EXCEPT !.prd_built = TRUE]

ConvertBriefToPrd ==
    \/ /\ briefFile # "text"
       /\ Fail("convert_brief_to_prd", "precondition")
    \/ /\ briefFile = "text"
       /\ \E outcome \in {"ok", "raise"} :
            /\ st' = IF outcome = "ok" THEN ConvertBriefState(st) ELSE st
            /\ briefPrd' = (briefPrd \/ outcome = "ok")
            /\ Hist([Op("convert_brief_to_prd",
                        IF outcome = "ok" THEN "ok" ELSE "call_error") EXCEPT
                        !.calls = {"brief"}])
       /\ UNCHANGED <<ctxVars, anaVars, sessVars, outVars, briefFile>>

\* ---- create request with the same id (routes/projects.py 123-167, ----
\* ---- routes/workspaces.py 451-484): the id is the clock second,    ----
\* ---- save_state rewrites state.json, the other files stay          ----
MergeInputs(old, new) ==
    IF old = "supported" \/ new = "supported" THEN "supported"
    ELSE IF old = "unsupported" \/ new = "unsupported" THEN "unsupported"
    ELSE "none"

CreateProject ==
    /\ now = createdAt
    /\ \E kind \in {"none", "unsupported", "supported"} :
         inputsKind' = MergeInputs(inputsKind, kind)
    /\ st' = InitialState
    /\ overwritten' = TRUE
    /\ lastOp' = Op("create_project", "ok")
    /\ run' = NoRun
    /\ UNCHANGED <<contextFile, anaVars, sessVars, outVars, briefVars,
                   now, createdAt, lastSaved, raceVars, fnVars, wsVars>>

Tick ==
    /\ now < MaxClock
    /\ now' = now + 1
    /\ lastOp' = Op("tick", "ok")
    /\ UNCHANGED <<persisted, createdAt, overwritten, lastSaved, run, raceVars,
                   fnVars, wsVars>>

\* ---- the pipeline specification: every handler that writes state.json, ----
\* ---- run one at a time within one clock second; save_answer is called   ----
\* ---- with one key and one text; the read handler get_gaps is part of    ----
\* ---- the session specification                                          ----
SaveOneAnswer == SaveAnswerOf({"personas_roles"}, {"Admin: Jane"})

Init ==
    /\ st = InitialState
    /\ inputsKind \in {"none", "unsupported", "supported"}
    /\ contextFile = FALSE
    /\ analysisSeq = 0
    /\ analysisFile = NoAnalysis
    /\ enrichedCache = NoEnriched
    /\ questionsCache = NoQuestions
    /\ answersFile = NoAnswers
    /\ outputsPrd = FALSE
    /\ briefFile = "none"
    /\ briefPrd = FALSE
    /\ now = 0
    /\ createdAt = 0
    /\ overwritten = FALSE
    /\ lastOp = Op("create_project", "ok")
    /\ lastSaved = [k \in Keys |-> NoArg]
    /\ run = NoRun
    /\ pcS = "idle" /\ sArg = NoArg /\ sSt = InitialState /\ sData = NoAnswers
    /\ pcF = "idle" /\ fSt = InitialState /\ fData = NoAnswers
    /\ call = NoCall /\ ret = NoCall
    /\ WorkspaceIdle

Next ==
    \/ ProcessInputs
    \/ AnalyzeGaps
    \/ GenerateQuestions
    \/ BuildPrd
    \/ GenerateBacklog
    \/ StartInteractiveSession
    \/ RegenerateInteractiveQuestions
    \/ SaveOneAnswer
    \/ FinalizeSession
    \/ GenerateInitialBrief
    \/ ConvertBriefToPrd
    \/ CreateProject

Spec == Init /\ [][Next]_vars

\* ---- the session specification: a project just created or one whose ----
\* ---- inputs were processed, the handlers of the analysis and of the  ----
\* ---- interactive session                                             ----
SessionInit ==
    /\ st \in {InitialState, ProcessInputsState(InitialState)}
    /\ inputsKind = "supported"
    /\ contextFile = st.context_generated
    /\ analysisSeq = 0
    /\ analysisFile = NoAnalysis
    /\ enrichedCache = NoEnriched
    /\ questionsCache = NoQuestions
    /\ answersFile = NoAnswers
    /\ outputsPrd = FALSE
    /\ briefFile = "none"
    /\ briefPrd = FALSE
    /\ now = 0
    /\ createdAt = 0
    /\ overwritten = FALSE
    /\ lastOp = Op(IF st.context_generated THEN "process_inputs"
                   ELSE "create_project", "ok")
    /\ lastSaved = [k \in Keys |-> NoArg]
    /\ run = NoRun
    /\ pcS = "idle" /\ sArg = NoArg /\ sSt = InitialState /\ sData = NoAnswers
    /\ pcF = "idle" /\ fSt = InitialState /\ fData = NoAnswers
    /\ call = NoCall /\ ret = NoCall
    /\ WorkspaceIdle

SessionNext ==
    \/ AnalyzeGaps
    \/ GetGaps
    \/ StartInteractiveSession
    \/ RegenerateInteractiveQuestions
    \/ SaveAnswer
    \/ FinalizeSession
    \/ Tick

SessionSpec == SessionInit /\ [][SessionNext]_vars

\* ---- the race specification: one save_answer and one finalize_session ----
\* ---- request for the same project, handled by two workers; each file   ----
\* ---- read and each file write is one step, and nothing orders the      ----
\* ---- steps of the two handlers (the code takes no lock)                ----
RaceAnswers ==
    {<<>>, <<AnswerEntry("personas_roles", "Admin: Jane", FALSE)>>,
     <<AnswerEntry("ux_flows", "Admin: Jane", TRUE)>>}

RaceInit ==
    /\ \E answers \in RaceAnswers :
         /\ answersFile = [NewAnswersData EXCEPT !.answers = answers]
         /\ st = SessionState(
                    AnalyzeGapsState(ProcessInputsState(InitialState), "ok"),
                    answers)
         /\ lastSaved = [k \in Keys |->
                           IF IndexFrom(answers, k, 1) # 0
                           THEN answers[IndexFrom(answers, k, 1)] ELSE NoArg]
    /\ inputsKind = "supported"
    /\ contextFile = TRUE
    /\ analysisSeq = 1
    /\ analysisFile = [exists |-> TRUE, id |-> 1, mtime |-> 0]
    /\ enrichedCache = NoEnriched
    /\ questionsCache = [exists |-> TRUE, basis |-> 1]
    /\ outputsPrd = FALSE
    /\ briefFile = "none"
    /\ briefPrd = FALSE
    /\ now = 0
    /\ createdAt = 0
    /\ overwritten = FALSE
    /\ lastOp = Op("start", "ok")
    /\ run = NoRun
    /\ pcS = "request" /\ sArg = NoArg /\ sSt = InitialState /\ sData = NoAnswers
    /\ pcF = "request" /\ fSt = InitialState /\ fData = NoAnswers
    /\ call = NoCall /\ ret = NoCall
    /\ WorkspaceIdle

RaceFrame == UNCHANGED <<ctxVars, anaVars, questionsCache, outVars, briefVars,
                         env, lastOp, lastSaved, run, fnVars,
                         wsVars>>

\* save_answer line 541: load_state
SaveLoadState ==
    /\ pcS = "request"
    /\ \E k \in Keys, a \in Texts, sk \in BOOLEAN : sArg' = AnswerEntry(k, a, sk)
    /\ sSt' = st
    /\ pcS' = "loaded"
    /\ UNCHANGED <<st, answersFile, sData, pcF, fSt, fData>>
    /\ RaceFrame

\* save_answer lines 549-553: read answers.json
SaveReadAnswers ==
    /\ pcS = "loaded"
    /\ IF SessionStarted(answersFile)
       THEN sData' = answersFile /\ pcS' = "read"
       ELSE UNCHANGED sData /\ pcS' = "failed"
    /\ UNCHANGED <<st, answersFile, sArg, sSt, pcF, fSt, fData>>
    /\ RaceFrame

\* save_answer lines 555-582: upsert and write answers.json
SaveWriteAnswers ==
    /\ pcS = "read"
    /\ sData' = SaveAnswerData(sData, sArg)
    /\ answersFile' = SaveAnswerData(sData, sArg)
    /\ pcS' = "written"
    /\ UNCHANGED <<st, sArg, sSt, pcF, fSt, fData>>
    /\ RaceFrame

\* save_answer lines 584-588: save_state with the recomputed counts
SaveSaveState ==
    /\ pcS = "written"
    /\ st' = WithCounts(sSt, sData.answers)
    /\ pcS' = "done"
    /\ UNCHANGED <<answersFile, sArg, sSt, sData, pcF, fSt, fData>>
    /\ RaceFrame

\* finalize_session line 627: load_state
FinalizeLoadState ==
    /\ pcF = "request"
    /\ fSt' = st
    /\ pcF' = "loaded"
    /\ UNCHANGED <<st, answersFile, fData, pcS, sArg, sSt, sData>>
    /\ RaceFrame

\* finalize_session lines 634-639: read answers.json
FinalizeReadAnswers ==
    /\ pcF = "loaded"
    /\ IF SessionStarted(answersFile)
       THEN fData' = answersFile /\ pcF' = "read"
       ELSE UNCHANGED fData /\ pcF' = "failed"
    /\ UNCHANGED <<st, answersFile, fSt, pcS, sArg, sSt, sData>>
    /\ RaceFrame

\* finalize_session lines 641-645: set the status and write answers.json
FinalizeWriteAnswers ==
    /\ pcF = "read"
    /\ fData' = FinalizeData(fData)
    /\ answersFile' = FinalizeData(fData)
    /\ pcF' = "written"
    /\ UNCHANGED <<st, fSt, pcS, sArg, sSt, sData>>
    /\ RaceFrame

\* finalize_session lines 647-652: save_state
FinalizeSaveState ==
    /\ pcF = "written"
    /\ st' = FinalizeState(fSt)
    /\ pcF' = "done"
    /\ UNCHANGED <<answersFile, fSt, fData, pcS, sArg, sSt, sData>>
    /\ RaceFrame

RaceNext ==
    \/ SaveLoadState
    \/ SaveReadAnswers
    \/ SaveWriteAnswers
    \/ SaveSaveState
    \/ FinalizeLoadState
    \/ FinalizeReadAnswers
    \/ FinalizeWriteAnswers
    \/ FinalizeSaveState

RaceSpec == RaceInit /\ [][RaceNext]_vars

\* ======================= library functions =======================
\* A text is a sequence of chunks: " " is a run of whitespace, any other
\* chunk is a run of characters without whitespace.

\* an excerpt of EnterprisePRDTemplate.SECTIONS, in template order
SECTIONS ==
    << [key |-> "personas_roles", priority |-> "critical"],
       [key |-> "ux_flows", priority |-> "critical"],
       [key |-> "risks_challenges", priority |-> "important"],
       [key |-> "appendix", priority |-> "optional"] >>

SectionKeys == {SECTIONS[i].key : i \in 1..Len(SECTIONS)}

\* str.strip(): leading and trailing whitespace removed
RECURSIVE LStrip(_)
LStrip(t) == IF t # <<>> /\ Head(t) = " " THEN LStrip(Tail(t)) ELSE t

RECURSIVE RStrip(_)
RStrip(t) ==
    IF t # <<>> /\ t[Len(t)] = " " THEN RStrip(SubSeq(t, 1, Len(t) - 1)) ELSE t

Strip(t) == RStrip(LStrip(t))

\* str.lower() on the chunks the model uses
LowerChunk(c) ==
    CASE c = "Missing_Sections" -> "missing_sections"
      [] c = "Scope" -> "scope"
      [] c = "Open" -> "open"
      [] c = "Risks" -> "risks"
      [] OTHER -> c

Lower(t) == [i \in 1..Len(t) |-> LowerChunk(t[i])]

\* dict.get(key, default)
Get(d, k, default) == IF k \in DOMAIN d THEN d[k] ELSE default

\* every dict with keys among K and values in V
Dicts(K, V) == UNION {[D -> V] : D \in SUBSET K}

\* ---- build_prd (src/src/prd_builder.py 386-439) ----
AllContentExtractedFirst(extracted, answers) ==
    [k \in DOMAIN extracted \cup DOMAIN answers |->
        IF k \in DOMAIN extracted THEN extracted[k] ELSE answers[k]]

\* line 405: {**analysis.extracted_info, **user_answers}
AllContent(extracted, answers) ==
    [k \in DOMAIN extracted \cup DOMAIN answers |->
        IF k \in DOMAIN answers THEN answers[k] ELSE extracted[k]]

SkippedUnlessEmpty(content) == content = <<>>

\* line 414: the sections build_prd leaves out
Skipped(content) ==
    \/ content = <<>>
    \/ Strip(content) = <<>>
    \/ Lower(Strip(content)) = <<"missing_sections">>

\* _format_section_content (lines 442-615): the text the model returns for
\* the raw content, or the raw content itself when the call raises
FormatSectionContent(raw, formatted) == [raw |-> raw, formatted |-> formatted]

\* lines 410-425; failing is the set of sections whose formatting call raises
PrdSections(extracted, answers, failing) ==
    LET all == AllContent(extracted, answers)
        kept == {k \in SectionKeys : ~Skipped(Get(all, k, <<>>))}
    IN [k \in kept |-> FormatSectionContent(all[k], k \notin failing)]

ExtractedTexts == {<<>>, <<" ">>, <<"Jane", " ">>, <<"Missing_Sections">>}

AnswerTexts == {<<>>, <<" ">>, <<" ", "Bob">>}

BuildPrdCalls ==
    {[fn |-> "build_prd", extracted_info |-> e, user_answers |-> a] :
        e \in Dicts(SectionKeys, ExtractedTexts), a \in Dicts(Keys, AnswerTexts)}

BuildPrdFn ==
    /\ call.fn = "build_prd" /\ ret = NoCall
    /\ \E failing \in {{}, {"personas_roles"}, SectionKeys} :
         ret' = [sections |-> PrdSections(call.extracted_info,
                                          call.user_answers, failing)]
    /\ UNCHANGED <<projectVars, wsVars, call>>

\* ---- PRD.is_complete (src/src/prd_template.py 292-299) ----
\* get_critical_sections, lines 270-273
GetCriticalSections ==
    {SECTIONS[i].key : i \in {j \in 1..Len(SECTIONS) : SECTIONS[j].priority = "critical"}}

UnfilledUnlessEmpty(content) == content = <<>>

\* line 297: not content or content == "[Content to be filled]"
Unfilled(content) == content = <<>> \/ content = <<"[Content to be filled]">>

IsComplete(sections) ==
    \A k \in GetCriticalSections : ~Unfilled(Strip(Get(sections, k, <<>>)))

DocumentTexts ==
    {<<>>, <<" ">>, <<" ", "Jane">>, <<"[Content to be filled]", " ">>}

IsCompleteCalls ==
    {[fn |-> "is_complete", sections |-> d] : d \in Dicts(SectionKeys, DocumentTexts)}

IsCompleteFn ==
    /\ call.fn = "is_complete" /\ ret = NoCall
    /\ ret' = [value |-> IsComplete(call.sections)]
    /\ UNCHANGED <<projectVars, wsVars, call>>

\* every sequence over S of length at most n
SeqsUpTo(S, n) == UNION {[1..m -> S] : m \in 0..n}

\* PRDTemplate.get_section (prd_template.py 262-268): index in SECTIONS, 0 for None
RECURSIVE SectionIndexFrom(_, _)
SectionIndexFrom(key, i) ==
    IF i > Len(SECTIONS) THEN 0
    ELSE IF SECTIONS[i].key = key THEN i
    ELSE SectionIndexFrom(key, i + 1)

GetSection(key) == SectionIndexFrom(key, 1)

\* the Gap built for a template section (section_key and priority)
GapOf(i) == [section_key |-> SECTIONS[i].key, priority |-> SECTIONS[i].priority]

\* ---- analyze_input (src/src/prd_builder.py 156-283) ----
\* what the chat completion call gives: it raises, returns text that is not
\* JSON, or returns a JSON object; confidence scores are in percent
ResponseKeys == SectionKeys \cup {"unknown_section"}

JsonResponses ==
    {[kind |-> "json", extracted_info |-> e, confidence_scores |-> c,
      missing_sections |-> m] :
        e \in Dicts(SectionKeys, {<<"Jane">>}),
        c \in Dicts(SectionKeys, {0, 90}),
        m \in SeqsUpTo(ResponseKeys, MaxList)}

FailedResponses == {[kind |-> "raise"], [kind |-> "malformed"]}

\* lines 205-271: one gap per entry of missing_sections that names a
\* template section, in the order of missing_sections
RECURSIVE GapsFrom(_)
GapsFrom(missing) ==
    IF missing = <<>> THEN <<>>
    ELSE IF GetSection(Head(missing)) # 0
         THEN <<GapOf(GetSection(Head(missing)))>> \o GapsFrom(Tail(missing))
         ELSE GapsFrom(Tail(missing))

\* lines 182-283: one call; json.loads raises on malformed text and every
\* exception becomes RuntimeError
AnalyzeInput(responses) ==
    LET r == responses[1] IN
    IF r.kind # "json"
    THEN [error |-> TRUE, attempts |-> 1]
    ELSE [error |-> FALSE, attempts |-> 1,
          extracted_info |-> r.extracted_info,
          confidence_scores |-> r.confidence_scores,
          gaps |-> GapsFrom(r.missing_sections)]

\* the responses the model gives to a first and to a second call
AnalyzeInputCalls ==
    {[fn |-> "analyze_input", responses |-> <<r1, r2>>] :
        r1 \in {r \in JsonResponses : DOMAIN r.confidence_scores = DOMAIN r.extracted_info}
               \cup FailedResponses,
        r2 \in {[kind |-> "raise"],
                [kind |-> "json", extracted_info |-> <<>>, confidence_scores |-> <<>>,
                 missing_sections |-> <<"appendix">>]}}

AnalyzeInputFn ==
    /\ call.fn = "analyze_input" /\ ret = NoCall
    /\ ret' = AnalyzeInput(call.responses)
    /\ UNCHANGED <<projectVars, wsVars, call>>

\* ---- generate_questions (src/src/prd_builder.py 286-383) ----
\* lines 364-381: a Gap for each of the first max_questions questions whose
\* section_key names a template section
RECURSIVE QuestionsFrom(_)
QuestionsFrom(keys) ==
    IF keys = <<>> THEN <<>>
    ELSE IF GetSection(Head(keys)) # 0
         THEN <<GapOf(GetSection(Head(keys)))>> \o QuestionsFrom(Tail(keys))
         ELSE QuestionsFrom(Tail(keys))

Truncate(seq, n) == SubSeq(seq, 1, IF Len(seq) < n THEN Len(seq) ELSE n)

HasPriority(gaps, p) == \E i \in 1..Len(gaps) : gaps[i].priority = p

\* response: [kind |-> "raise"] or [kind |-> "json", questions |-> section keys]
GenerateQuestionsFn(gaps, response, max_questions) ==
    IF gaps = <<>> \/ ~(HasPriority(gaps, "critical") \/ HasPriority(gaps, "important"))
    THEN [error |-> FALSE, calls |-> 0, questions |-> <<>>]
    ELSE IF response.kind # "json"
    THEN [error |-> TRUE, calls |-> 1, questions |-> <<>>]
    ELSE [error |-> FALSE, calls |-> 1,
          questions |-> QuestionsFrom(Truncate(response.questions, max_questions))]

RECURSIVE GapsOfKeys(_, _)
GapsOfKeys(K, i) ==
    IF i > Len(SECTIONS) THEN <<>>
    ELSE (IF SECTIONS[i].key \in K THEN <<GapOf(i)>> ELSE <<>>) \o GapsOfKeys(K, i + 1)

GenerateQuestionsCalls ==
    {[fn |-> "generate_questions", gaps |-> GapsOfKeys(K, 1), response |-> r,
      max_questions |-> n] :
        K \in SUBSET SectionKeys,
        r \in {[kind |-> "raise", questions |-> <<>>]}
              \cup {[kind |-> "json", questions |-> q] : q \in SeqsUpTo(ResponseKeys, MaxList)},
        n \in 1..MaxList}

GenerateQuestionsApply ==
    /\ call.fn = "generate_questions" /\ ret = NoCall
    /\ ret' = GenerateQuestionsFn(call.gaps, call.response, call.max_questions)
    /\ UNCHANGED <<projectVars, wsVars, call>>

\* ---- WorkspaceProcessor._merge_analyses (workspace_processor.py 231-318) ----
RECURSIVE AppendUnseenNames(_, _)
\* lines 245-276: entries whose name is not yet in the merged list are appended
AppendUnseenNames(merged, entries) ==
    IF entries = <<>> THEN merged
    ELSE AppendUnseenNames(
           IF \E i \in 1..Len(merged) : merged[i].name = Head(entries).name
           THEN merged ELSE Append(merged, Head(entries)),
           Tail(entries))

MergeByNamePreviousFirst(previous, new) ==
    AppendUnseenNames(AppendUnseenNames(<<>>, previous), new)

MergeByNameKeepingAll(previous, new) == new \o previous

\* identified_features and suggested_modules: the new entries, then the previous
MergeByName(previous, new) ==
    AppendUnseenNames(AppendUnseenNames(<<>>, new), previous)

RECURSIVE AppendUnseen(_, _)
\* lines 279-294: entries not yet in the merged list are appended
AppendUnseen(merged, entries) ==
    IF entries = <<>> THEN merged
    ELSE AppendUnseen(
           IF \E i \in 1..Len(merged) : merged[i] = Head(entries)
           THEN merged ELSE Append(merged, Head(entries)),
           Tail(entries))

MergePlainKeepingAll(previous, new) == previous \o new

\* technical_risks, business_risks and business_objectives: a copy of the
\* previous list, then the new entries it does not hold
MergePlain(previous, new) == AppendUnseen(previous, new)

\* None for tech_stack_recommendation and for resource_estimation
NoTechStack == [exists |-> FALSE, backend |-> <<>>, database |-> <<>>]

NoEstimation == [exists |-> FALSE, estimated_timeline |-> "", assumptions |-> <<>>]

PreferNewTextAlways(previous, new) == new

\* lines 303, 305: new.executive_summary or previous.executive_summary
PreferNewText(previous, new) == IF new # "" THEN new ELSE previous

\* lines 297, 311: the new object when there is one, whatever its fields hold
PreferNewObject(previous, new) == IF new.exists THEN new ELSE previous

MergeAnalyses(previous, new) ==
    [executive_summary |-> PreferNewText(previous.executive_summary,
                                         new.executive_summary),
     architecture_overview |-> PreferNewText(previous.architecture_overview,
                                             new.architecture_overview),
     tech_stack_recommendation |->
         PreferNewObject(previous.tech_stack_recommendation,
                         new.tech_stack_recommendation),
     resource_estimation |-> PreferNewObject(previous.resource_estimation,
                                             new.resource_estimation),
     identified_features |-> MergeByName(previous.identified_features,
                                         new.identified_features),
     suggested_modules |-> MergeByName(previous.suggested_modules,
                                       new.suggested_modules),
     technical_risks |-> MergePlain(previous.technical_risks, new.technical_risks),
     business_risks |-> MergePlain(previous.business_risks, new.business_risks),
     business_objectives |-> MergePlain(previous.business_objectives,
                                        new.business_objectives)]

\* an analysis whose lists by name hold named and whose plain lists hold
\* plain; version tells the entries of the two analyses apart
Analysis(named, plain, version) ==
    LET entries == [i \in 1..Len(named) |-> [name |-> named[i], of |-> version]]
    IN [executive_summary |-> "", architecture_overview |-> "",
        tech_stack_recommendation |-> NoTechStack,
        resource_estimation |-> NoEstimation,
        identified_features |-> entries, suggested_modules |-> entries,
        technical_risks |-> plain, business_risks |-> plain,
        business_objectives |-> plain]

TechStacks(backend) ==
    {NoTechStack,
     [exists |-> TRUE, backend |-> <<backend>>, database |-> <<>>],
     [exists |-> TRUE, backend |-> <<backend>>, database |-> <<"PostgreSQL">>]}

Estimations(timeline) ==
    {NoEstimation,
     [exists |-> TRUE, estimated_timeline |-> timeline, assumptions |-> <<>>],
     [exists |-> TRUE, estimated_timeline |-> "",
      assumptions |-> <<"two developers">>]}

\* the analyses of one version that differ in the fields that are not lists
ScalarAnalyses(version, backend, timeline) ==
    {[Analysis(<<"Login">>, <<"Risk A">>, version) EXCEPT
         !.executive_summary = es, !.architecture_overview = ao,
         !.tech_stack_recommendation = ts, !.resource_estimation = re] :
        es \in {"", version}, ao \in {"", version},
        ts \in TechStacks(backend), re \in Estimations(timeline)}

MergeScalarCalls ==
    {[fn |-> "_merge_analyses", previous |-> a, new |-> b] :
        a \in ScalarAnalyses("previous", "Django", "3 months"),
        b \in ScalarAnalyses("new", "FastAPI", "6 months")}

MergeCalls ==
    {[fn |-> "_merge_analyses", previous |-> Analysis(pn, pp, "previous"),
      new |-> Analysis(nn, np, "new")] :
        pn \in SeqsUpTo({"Login", "Search"}, MaxList),
        nn \in SeqsUpTo({"Login", "Search"}, MaxList),
        pp \in SeqsUpTo({"Risk A", "Risk B"}, MaxList),
        np \in SeqsUpTo({"Risk A", "Risk B"}, MaxList)}

MergeAnalysesFn ==
    /\ call.fn = "_merge_analyses" /\ ret = NoCall
    /\ ret' = MergeAnalyses(call.previous, call.new)
    /\ UNCHANGED <<projectVars, wsVars, call>>

\* ---- the library specification: one function applied once to arguments ----
\* ---- drawn from the sets above, beside a project that is left alone    ----
ProjectIdle ==
    /\ st = InitialState
    /\ inputsKind = "supported"
    /\ contextFile = FALSE
    /\ analysisSeq = 0
    /\ analysisFile = NoAnalysis
    /\ enrichedCache = NoEnriched
    /\ questionsCache = NoQuestions
    /\ answersFile = NoAnswers
    /\ outputsPrd = FALSE
    /\ briefFile = "none"
    /\ briefPrd = FALSE
    /\ now = 0
    /\ createdAt = 0
    /\ overwritten = FALSE
    /\ lastOp = Op("create_project", "ok")
    /\ lastSaved = [k \in Keys |-> NoArg]
    /\ run = NoRun
    /\ pcS = "idle" /\ sArg = NoArg /\ sSt = InitialState /\ sData = NoAnswers
    /\ pcF = "idle" /\ fSt = InitialState /\ fData = NoAnswers

LibInit ==
    /\ ProjectIdle
    /\ WorkspaceIdle
    /\ ret = NoCall
    /\ \/ call \in BuildPrdCalls
       \/ call \in IsCompleteCalls
       \/ call \in AnalyzeInputCalls
       \/ call \in GenerateQuestionsCalls
       \/ call \in MergeCalls
       \/ call \in MergeScalarCalls

LibNext ==
    \/ BuildPrdFn
    \/ IsCompleteFn
    \/ AnalyzeInputFn
    \/ GenerateQuestionsApply
    \/ MergeAnalysesFn

LibSpec == LibInit /\ [][LibNext]_vars

\* ======================= the workspace =======================
\* routes/workspaces.py and services/workspace_processor.py: one workspace,
\* its documents folder and the features created in it.

FallbackText == "Ver archivo analysis.md para detalles completos"

\* what the model answers: the text under the two headings _parse_analysis
\* looks for ("" when the heading is missing or nothing follows it)
AnalysisTexts ==
    {[executive |-> e, architecture |-> a] :
        e \in {"", "Billing platform", "Billing and invoicing platform"},
        a \in {"", "Layered services"}}

\* _parse_analysis (workspace_processor.py 179-217)
ParseAnalysis(text) ==
    [NoWorkspaceAnalysis EXCEPT
        !.executive_summary =
            IF text.executive # "" THEN text.executive ELSE FallbackText,
        !.architecture_overview =
            IF text.architecture # "" THEN text.architecture ELSE FallbackText]

\* lines 160-168: the version is raised and the analysis stored in one save
AnalyzedWorkspace(ws, merged) ==
    [ws EXCEPT !.analysis_version = ws.analysis_version + 1,
               !.analysis = merged, !.analysis_completed = TRUE,
               !.documents_processed = TRUE]

\* analyze_workspace (workspace_processor.py 64-177).  The documents are read
\* first (ValueError when none is supported), documents_processed is saved
\* before the model is called, the analysis and the raised version are saved
\* together, and the features are updated after that save, inside the same
\* try block: an exception of _update_existing_features (320-367: it loads
\* every feature's state.json and rewrites its context.txt) fails the run.
AnalyzeWorkspace ==
    /\ workspace.analysis_version <= MaxAnalyses
    /\ \E merge_with_existing \in BOOLEAN, called \in {"ok", "call_error"},
          text \in AnalysisTexts, updated \in {"ok", "update_error"} :
         LET previous == workspace.analysis
             new == ParseAnalysis(text)
             merged == IF workspace.analysis_completed /\ merge_with_existing
                       THEN MergeAnalyses(previous, new) ELSE new
             processed == [workspace EXCEPT !.documents_processed = TRUE]
         IN IF documents # "supported"
            THEN /\ lastOp' = Op("analyze_workspace", "no_documents")
                 /\ UNCHANGED workspace
            ELSE IF called # "ok"
            THEN /\ lastOp' = Op("analyze_workspace", called)
                 /\ workspace' = processed
            ELSE /\ workspace' = AnalyzedWorkspace(workspace, merged)
                 /\ lastOp' = Op("analyze_workspace",
                                 IF workspace.features # <<>> THEN updated
                                 ELSE "ok")
    /\ UNCHANGED <<documents, featureStates, st, files, env, lastSaved, run,
                   raceVars, fnVars>>

\* add_documents (routes/workspaces.py 204-285): allowed are .pdf, .txt, .md
\* and .docx; process_inputs_folder reads no .docx
AddDocuments ==
    /\ \E kind \in {"unsupported", "supported"} :
         documents' = MergeInputs(documents, kind)
    /\ workspace' = [workspace EXCEPT !.documents_processed = FALSE]
    /\ lastOp' = Op("add_documents", "ok")
    /\ UNCHANGED <<featureStates, st, files, env, lastSaved, run, raceVars,
                   fnVars>>

\* create_workspace_feature (routes/workspaces.py 413-495): the id is the
\* clock second; the feature's state.json is written and the id appended
CreateWorkspaceFeature ==
    /\ Len(workspace.features) < MaxList
    /\ \E name \in {"Login", "Search"} :
         featureStates' = [featureStates EXCEPT ![now] = name]
    /\ workspace' = [workspace EXCEPT !.features = Append(@, now)]
    /\ lastOp' = Op("create_feature", "ok")
    /\ UNCHANGED <<documents, st, files, env, lastSaved, run, raceVars, fnVars>>

WorkspaceInit ==
    /\ ProjectIdle
    /\ call = NoCall /\ ret = NoCall
    /\ workspace = NewWorkspace
    /\ documents \in {"unsupported", "supported"}
    /\ featureStates = [id \in 0..MaxClock |-> "none"]

WorkspaceNext ==
    \/ AnalyzeWorkspace
    \/ AddDocuments
    \/ CreateWorkspaceFeature
    \/ Tick

WorkspaceSpec == WorkspaceInit /\ [][WorkspaceNext]_vars

\* ======================= version comparison =======================
\* services/version_manager.py.  A PRD is a sequence of lines; a line is a
\* heading ("## " followed by text) or not, and its text a sequence of chunks
\* (<<>> is a blank line).

HeadingLine(title) == [heading |-> TRUE, text |-> title]

TextLine(text) == [heading |-> FALSE, text |-> text]

PrdLines ==
    {HeadingLine(<<"Scope">>), HeadingLine(<<"Open", " ", "Risks">>),
     TextLine(<<"alpha">>), TextLine(<<"beta">>), TextLine(<<>>)}

\* line 170: title.lower().replace(' ', '_').replace('/', '_')
SectionKey(title) ==
    [i \in 1..Len(title) |->
        IF LowerChunk(title[i]) \in {" ", "/"} THEN "_"
        ELSE LowerChunk(title[i])]

\* '\n'.join(current_content).strip(): blank lines at both ends go
RECURSIVE StripLines(_)
StripLines(content) ==
    IF content = <<>> THEN <<>>
    ELSE IF Strip(Head(content)) = <<>> THEN StripLines(Tail(content))
    ELSE IF Strip(content[Len(content)]) = <<>>
    THEN StripLines(SubSeq(content, 1, Len(content) - 1))
    ELSE content

SectionContentUnstripped(content) == content

\* the content a section is stored with
SectionContent(content) == StripLines(content)

NoSection == [key |-> <<>>, title |-> <<>>]

\* lines 161-165, 175-179: the open section, if any, is stored under its key
SaveSection(sections, current, content) ==
    IF current.key = <<>> THEN sections
    ELSE [k \in DOMAIN sections \cup {current.key} |->
            IF k = current.key
            THEN [title |-> current.title, content |-> SectionContent(content)]
            ELSE sections[k]]

\* _parse_prd_sections (version_manager.py 149-182)
RECURSIVE ParseFrom(_, _, _, _, _)
ParseFrom(prd, i, sections, current, content) ==
    IF i > Len(prd) THEN SaveSection(sections, current, content)
    ELSE IF prd[i].heading
    THEN ParseFrom(prd, i + 1, SaveSection(sections, current, content),
                   [key |-> SectionKey(Strip(prd[i].text)),
                    title |-> Strip(prd[i].text)], <<>>)
    ELSE IF current.key # <<>>
    THEN ParseFrom(prd, i + 1, sections, current, Append(content, prd[i].text))
    ELSE ParseFrom(prd, i + 1, sections, current, content)

ParsePrdSections(prd) == ParseFrom(prd, 1, <<>>, NoSection, <<>>)

\* compare_prd_versions (version_manager.py 72-147); an empty or missing
\* PRD is <<>>.  The lists are kept as the sets of their section keys.
ComparePrdVersions(prd1, prd2) ==
    LET sections1 == ParsePrdSections(prd1)
        sections2 == ParsePrdSections(prd2)
        all_section_keys == DOMAIN sections1 \cup DOMAIN sections2
        added == {k \in all_section_keys : k \notin DOMAIN sections1}
        removed == {k \in all_section_keys :
                      k \in DOMAIN sections1 /\ k \notin DOMAIN sections2}
        modified == {k \in DOMAIN sections1 \cap DOMAIN sections2 :
                       sections1[k].content # sections2[k].content}
        unchanged == {k \in DOMAIN sections1 \cap DOMAIN sections2 :
                        sections1[k].content = sections2[k].content}
    IN IF prd1 = <<>> \/ prd2 = <<>>
       THEN [error |-> TRUE, added |-> {}, removed |-> {}, modified |-> {},
             unchanged |-> {}, sections_added |-> 0, sections_removed |-> 0,
             sections_modified |-> 0, sections_unchanged |-> 0]
       ELSE [error |-> FALSE, added |-> added, removed |-> removed,
             modified |-> modified, unchanged |-> unchanged,
             sections_added |-> Cardinality(added),
             sections_removed |-> Cardinality(removed),
             sections_modified |-> Cardinality(modified),
             sections_unchanged |-> Cardinality(unchanged)]

CompareCalls ==
    {[fn |-> "compare_prd_versions", prd1 |-> a, prd2 |-> b] :
        a \in SeqsUpTo(PrdLines, MaxList), b \in SeqsUpTo(PrdLines, MaxList + 1)}

ComparePrdVersionsFn ==
    /\ call.fn = "compare_prd_versions"
    /\ ret = NoCall
    /\ ret' = ComparePrdVersions(call.prd1, call.prd2)
    /\ UNCHANGED <<projectVars, wsVars, call>>

\* ======================= ingestion =======================
\* src/ingestor.py.  A file of the folder is its kind (by extension) and
\* whether reading or transcribing it works; read_text's second attempt with
\* latin-1 counts as a read that works.  Files are named by their position
\* in the sorted folder.
InputFiles == [kind : {"pdf", "audio", "text", "other"}, reads : {"ok", "fails"}]

\* read_pdf, transcribe_audio, read_text (lines 13-81): every exception is
\* caught and turned into an "[ERROR ...]" string naming the file
ReadFile(file, i) ==
    IF file.reads = "ok" THEN [error |-> FALSE, of |-> i]
    ELSE [error |-> TRUE, of |-> i]

SupportedAndReadable(file) ==
    file.kind \in {"pdf", "audio", "text"} /\ file.reads = "ok"

\* lines 106-108, 125-138: the extensions that are processed
Supported(file) == file.kind \in {"pdf", "audio", "text"}

\* lines 116-140: one part per supported file, in the order of the folder
RECURSIVE ContextParts(_, _)
ContextParts(folder, i) ==
    IF i > Len(folder) THEN <<>>
    ELSE IF Supported(folder[i])
    THEN <<[label |-> folder[i].kind, name |-> i,
            content |-> ReadFile(folder[i], i)]>> \o ContextParts(folder, i + 1)
    ELSE ContextParts(folder, i + 1)

\* process_inputs_folder (lines 84-150)
ProcessInputsFolder(exists, folder) ==
    IF ~exists THEN [raised |-> "FileNotFoundError", parts |-> <<>>]
    ELSE IF ContextParts(folder, 1) = <<>>
    THEN [raised |-> "ValueError", parts |-> <<>>]
    ELSE [raised |-> "none", parts |-> ContextParts(folder, 1)]

IngestCalls ==
    {[fn |-> "process_inputs_folder", exists |-> TRUE, folder |-> f] :
        f \in SeqsUpTo(InputFiles, MaxList)}
      \cup {[fn |-> "process_inputs_folder", exists |-> FALSE, folder |-> <<>>]}

ProcessInputsFolderFn ==
    /\ call.fn = "process_inputs_folder"
    /\ ret = NoCall
    /\ ret' = ProcessInputsFolder(call.exists, call.folder)
    /\ UNCHANGED <<projectVars, wsVars, call>>

\* ======================= the answers build_prd assembles =======================
\* ProjectProcessor.build_prd (project_processor.py 254-294)

AnsweredUnlessEmpty(ans) == ~ans.skipped /\ ans.answer # <<>>

\* line 279: not skipped, and text left after strip()
Answered(ans) == ~ans.skipped /\ Strip(ans.answer) # <<>>

\* lines 278-280: later records of a key replace earlier ones
RECURSIVE InteractiveAnswers(_, _, _)
InteractiveAnswers(answers, i, acc) ==
    IF i > Len(answers) THEN acc
    ELSE IF Answered(answers[i])
    THEN InteractiveAnswers(answers, i + 1,
            [k \in DOMAIN acc \cup {answers[i].section_key} |->
                IF k = answers[i].section_key THEN answers[i].answer ELSE acc[k]])
    ELSE InteractiveAnswers(answers, i + 1, acc)

\* line 287: {**(user_answers or {}), **interactive_answers}
AllAnswers(user_answers, answers) ==
    LET interactive_answers == InteractiveAnswers(answers, 1, <<>>)
    IN [k \in DOMAIN user_answers \cup DOMAIN interactive_answers |->
          IF k \in DOMAIN interactive_answers THEN interactive_answers[k]
          ELSE user_answers[k]]

SessionAnswerEntries ==
    {AnswerEntry(k, a, sk) : k \in Keys, a \in AnswerTexts, sk \in BOOLEAN}

\* no answers.json and an empty answers list both give no session answers;
\* user_answers = None is the empty dict
AllAnswersCalls ==
    {[fn |-> "all_answers", user_answers |-> u, answers |-> a] :
        u \in Dicts(Keys, {<<>>, <<"Carol">>}),
        a \in SeqsUpTo(SessionAnswerEntries, MaxList)}

AllAnswersFn ==
    /\ call.fn = "all_answers"
    /\ ret = NoCall
    /\ ret' = [all_answers |-> AllAnswers(call.user_answers, call.answers)]
    /\ UNCHANGED <<projectVars, wsVars, call>>

\* ---- the second library specification: the functions of the version ----
\* ---- manager, the ingestor and the answer map of build_prd          ----
ToolInit ==
    /\ ProjectIdle
    /\ WorkspaceIdle
    /\ ret = NoCall
    /\ \/ call \in CompareCalls
       \/ call \in IngestCalls
       \/ call \in AllAnswersCalls

ToolNext ==
    \/ ComparePrdVersionsFn
    \/ ProcessInputsFolderFn
    \/ AllAnswersFn

ToolSpec == ToolInit /\ [][ToolNext]_vars

\* ======================= properties =======================

Flag(s, i) == StageFlags(s)[i]

RecordsFor(answers, k) == {i \in 1..Len(answers) : answers[i].section_key = k}

\* C1: once finalize_session has set the session status to completed, every
\* later save_answer fails, and the persisted session is the same after the
\* failed call as before it.
SessionTerminality ==
    [][(answersFile.exists /\ answersFile.status = "completed"
          /\ lastOp'.op = "save_answer")
        => (lastOp'.result # "ok" /\ answersFile' = answersFile)]_vars

\* C2: the answers list holds at most one record per section key, and the
\* record of a key is the one of the most recent save_answer for that key.
AnswersLastWriteWins ==
    answersFile.exists =>
      \A k \in Keys :
        /\ Cardinality(RecordsFor(answersFile.answers, k)) <= 1
        /\ lastSaved[k] = NoArg => RecordsFor(answersFile.answers, k) = {}
        /\ lastSaved[k] # NoArg =>
             \E i \in RecordsFor(answersFile.answers, k) :
                answersFile.answers[i] = lastSaved[k]

\* a save_answer replaced the record of a key while the other key has one too
AnswerReplaced ==
    /\ lastOp.op = "save_answer" /\ lastOp.result = "ok" /\ lastOp.replaced
    /\ Len(answersFile.answers) = 2

\* C3: of two successful start_interactive_session(force_regenerate=false)
\* calls in a row the second makes no question-generation call, and when the
\* first found no questions cache the two make exactly one call in total.
CacheHitCostControl ==
    run.n = 2 =>
      /\ run.lastCalls = 0
      /\ run.prevCalls <= 1
      /\ run.prevFresh => run.prevCalls + run.lastCalls = 1

\* two starts in a row, the first of which generated the questions
SecondStartServedFromCache ==
    run.n = 2 /\ run.prevFresh /\ run.prevCalls = 1 /\ questionsCache.exists

\* C4: no handler of the pipeline, of the session or of the brief conversion
\* turns a stage flag from true to false.
MonotonicFlags ==
    [][lastOp'.op # "create_project" =>
         \A i \in 1..6 : Flag(st, i) => Flag(st', i)]_vars

\* an early stage was run again on a project whose later flags are set
EarlyStageRerun ==
    /\ lastOp.op = "process_inputs" /\ lastOp.result = "ok"
    /\ st.gaps_analyzed /\ st.questions_generated /\ st.prd_built
    /\ st.backlog_generated

StageOps ==
    {"process_inputs", "analyze_gaps", "generate_questions", "build_prd",
     "generate_backlog"}

SettersOf(i) ==
    CASE i \in {1, 2} -> {"process_inputs"}
      [] i = 3 -> {"analyze_gaps"}
      [] i = 4 -> {"generate_questions", "finalize_session"}
      [] i = 5 -> {"build_prd", "convert_brief_to_prd"}
      [] i = 6 -> {"generate_backlog"}

\* C6: when the external call of a pipeline stage raises, the stage fails
\* and the stage flags are what they were; a flag becomes true only in a
\* successful run of a handler that completes its stage.
FlagsOnlyOnSuccess ==
    [][/\ (lastOp'.op \in StageOps /\ lastOp'.result # "ok")
            => StageFlags(st') = StageFlags(st)
       /\ \A i \in 1..6 :
            (~Flag(st, i) /\ Flag(st', i))
              => (lastOp'.result = "ok" /\ lastOp'.op \in SettersOf(i))]_vars

\* the extraction call of analyze_gaps raised on a project without analysis
AnalysisCallRaised ==
    /\ lastOp.op = "analyze_gaps" /\ lastOp.result = "call_error"
    /\ lastOp.calls = {"extract"}
    /\ st.context_generated /\ ~st.gaps_analyzed

\* a step that only reports the precondition error
Rejected ==
    /\ lastOp'.result = "precondition"
    /\ lastOp'.calls = {}
    /\ UNCHANGED persisted

\* C7: a handler invoked before its precondition holds fails with the
\* precondition error, makes no model call and leaves the persisted state
\* unchanged.
PreconditionFailures ==
    [][/\ (lastOp'.op = "analyze_gaps" /\ ~st.context_generated) => Rejected
       /\ (lastOp'.op \in {"generate_questions", "start", "build_prd"}
             /\ ~st.gaps_analyzed) => Rejected
       /\ (lastOp'.op = "generate_backlog" /\ ~st.prd_built) => Rejected
       /\ (lastOp'.op \in {"save_answer", "finalize_session"}
             /\ ~answersFile.exists) => Rejected]_vars

\* a session start was rejected on a project without gap analysis
StartRejected ==
    /\ lastOp.op = "start" /\ lastOp.result = "precondition"
    /\ ~st.gaps_analyzed /\ ~answersFile.exists /\ ~questionsCache.exists

\* C8: after analyze_gaps replaced the analysis, no get_gaps call returns
\* enriched gaps and no start_interactive_session(force_regenerate=false)
\* call returns questions that come from a superseded analysis.
NoStaleCaches ==
    (lastOp.op \in {"get_gaps", "start"} /\ lastOp.result = "ok")
      => lastOp.basis = analysisFile.id

\* C9: when save_answer and finalize_session have both returned, the
\* persisted session is completed and holds the saved answer record.
NoLostUpdate ==
    (pcS = "done" /\ pcF = "done") =>
      /\ answersFile.status = "completed"
      /\ \E i \in 1..Len(answersFile.answers) : answersFile.answers[i] = sArg

\* C10: a start or regenerate whose question-generation call fails leaves
\* the persisted session unchanged: no session record is created and
\* regeneration_count keeps its value.
FailedGenerationKeepsSession ==
    [][(lastOp'.op \in {"start", "regenerate"} /\ lastOp'.result = "call_error")
        => answersFile' = answersFile]_vars

\* C11: a successful regenerate on a started, in-progress session adds
\* exactly 1 to regeneration_count, makes a question-generation call although
\* cached questions exist, rewrites the questions cache from the current
\* analysis and leaves the status in_progress and the answers as they were.
RegenerateForcesNewQuestions ==
    [][(/\ lastOp'.op = "regenerate" /\ lastOp'.result = "ok"
        /\ answersFile.exists /\ answersFile.status = "in_progress")
        => /\ answersFile'.regeneration_count = answersFile.regeneration_count + 1
           /\ lastOp'.calls = {"questions"} /\ ~lastOp'.cached
           /\ questionsCache' = [exists |-> TRUE, basis |-> analysisFile.id]
           /\ answersFile'.status = "in_progress"
           /\ answersFile'.answers = answersFile.answers]_vars

\* a regenerate replaced the questions of the first analysis by questions of
\* the second while an answer was recorded
RegeneratedOverCache ==
    /\ lastOp.op = "regenerate" /\ lastOp.result = "ok"
    /\ answersFile.regeneration_count = 1 /\ answersFile.status = "in_progress"
    /\ Len(answersFile.answers) = 1
    /\ analysisFile.id = 2 /\ questionsCache.basis = 2

\* C12: when save_answer and finalize_session have both returned, the
\* counters questions_answered_count and questions_skipped_count of the
\* project state, which every session handler and get_session_state report,
\* equal the numbers of non-skipped and of skipped records in the answers.
CountsDerivedFromAnswers ==
    (pcS = "done" /\ pcF = "done") =>
      /\ st.questions_answered_count = CountAnswered(answersFile.answers)
      /\ st.questions_skipped_count = CountSkipped(answersFile.answers)

\* ---- properties of the library functions ----
Returned(fn) == call.fn = fn /\ ret # NoCall

Range(seq) == {seq[i] : i \in 1..Len(seq)}

\* C13: for every section key of the user answers given to build_prd, the
\* content of that section in the document is resolved from the text of the
\* answer whatever extracted_info holds for the key; a key whose answer is
\* blank has no section.
AnswersOverrideExtraction ==
    Returned("build_prd") =>
      \A k \in DOMAIN call.user_answers :
        IF k \in DOMAIN ret.sections
        THEN ret.sections[k].raw = call.user_answers[k]
        ELSE Strip(call.user_answers[k]) = <<>>

\* an answer took the place of a text that the extraction had for the section
AnswerOverExtractedText ==
    /\ Returned("build_prd")
    /\ "personas_roles" \in DOMAIN call.user_answers
    /\ "personas_roles" \in DOMAIN call.extracted_info
    /\ call.extracted_info["personas_roles"] = <<"Jane", " ">>
    /\ "personas_roles" \in DOMAIN ret.sections
    /\ ret.sections["personas_roles"].raw = <<" ", "Bob">>

\* C14: a template section whose resolved content (the answer if there is
\* one, else the extracted text, else nothing) is empty or only whitespace is
\* not among the sections of the document build_prd returns.
NoBlankSections ==
    Returned("build_prd") =>
      \A k \in SectionKeys :
        LET resolved == IF k \in DOMAIN call.user_answers
                        THEN call.user_answers[k]
                        ELSE Get(call.extracted_info, k, <<>>)
        IN Strip(resolved) = <<>> => k \notin DOMAIN ret.sections

\* a section with whitespace-only text was left out beside one that was kept
WhitespaceSectionLeftOut ==
    /\ Returned("build_prd")
    /\ "ux_flows" \in DOMAIN call.extracted_info
    /\ call.extracted_info["ux_flows"] = <<" ">>
    /\ "ux_flows" \notin DOMAIN call.user_answers
    /\ "ux_flows" \notin DOMAIN ret.sections
    /\ "appendix" \in DOMAIN ret.sections

\* C15 (as stated): is_complete returns true exactly when every critical
\* section has content that is not empty and not only whitespace.
CompleteIffCriticalNonBlank ==
    Returned("is_complete") =>
      (ret.value <=>
         \A k \in GetCriticalSections :
            Strip(Get(call.sections, k, <<>>)) # <<>>)

\* C15 (amended): is_complete returns true exactly when the content of every
\* critical section, with surrounding whitespace removed, is neither empty
\* nor the placeholder "[Content to be filled]".
CompleteIffCriticalFilled ==
    Returned("is_complete") =>
      (ret.value <=>
         \A k \in GetCriticalSections :
            /\ Strip(Get(call.sections, k, <<>>)) # <<>>
            /\ Strip(Get(call.sections, k, <<>>)) # <<"[Content to be filled]">>)

\* a document whose critical sections all have text, one of them the
\* placeholder, is reported incomplete
PlaceholderIsIncomplete ==
    /\ Returned("is_complete")
    /\ DOMAIN call.sections = GetCriticalSections
    /\ call.sections["personas_roles"] = <<"[Content to be filled]", " ">>
    /\ call.sections["ux_flows"] = <<" ", "Jane">>
    /\ ~ret.value

\* C16: in the result of analyze_input no section key is both a key of
\* extracted_info and the section key of a gap.
ExtractedAndGapsDisjoint ==
    (Returned("analyze_input") /\ ~ret.error) =>
      \A i \in 1..Len(ret.gaps) :
         ret.gaps[i].section_key \notin DOMAIN ret.extracted_info

\* C17: in the result of analyze_input every template section that is
\* absent from extracted_info, or whose confidence score is 0, has a gap.
UnknownSectionsAreGaps ==
    (Returned("analyze_input") /\ ~ret.error) =>
      \A k \in SectionKeys :
        (k \notin DOMAIN ret.extracted_info \/ Get(ret.confidence_scores, k, 90) = 0)
          => \E i \in 1..Len(ret.gaps) : ret.gaps[i].section_key = k

\* C18: when the first extraction call of analyze_input raises or returns
\* malformed JSON, a second call is made and no third; analyze_input raises
\* exactly when the second call fails as well.
RetriedExactlyOnce ==
    (Returned("analyze_input") /\ call.responses[1].kind # "json") =>
      /\ ret.attempts = 2
      /\ ret.error <=> call.responses[2].kind # "json"

\* C19: every question generate_questions returns is for a section that is
\* a gap of the analysis and has priority critical or important.
QuestionsOnlyForNeededGaps ==
    (Returned("generate_questions") /\ ~ret.error) =>
      \A i \in 1..Len(ret.questions) :
        /\ ret.questions[i].priority \in {"critical", "important"}
        /\ \E j \in 1..Len(call.gaps) :
              call.gaps[j].section_key = ret.questions[i].section_key

\* position of the first occurrence of x in seq
FirstIdx(seq, x) ==
    CHOOSE i \in 1..Len(seq) : seq[i] = x /\ \A j \in 1..(i - 1) : seq[j] # x

NoDup(seq) == \A i, j \in 1..Len(seq) : i # j => seq[i] # seq[j]

Names(entries) == [i \in 1..Len(entries) |-> entries[i].name]

\* merged holds each name of the two lists once, the names of new in the
\* order of new and as the entries of new, then the other names of previous
NewFirstByName(merged, previous, new) ==
    LET mn == Names(merged)
        pn == Names(previous)
        nn == Names(new)
        rank(x) == IF x \in Range(nn) THEN FirstIdx(nn, x)
                   ELSE Len(nn) + FirstIdx(pn, x)
    IN /\ NoDup(mn)
       /\ Range(mn) = Range(pn) \cup Range(nn)
       /\ \A i \in 1..Len(merged) :
            merged[i].of = IF mn[i] \in Range(nn) THEN "new" ELSE "previous"
       /\ \A i, j \in 1..Len(merged) : i < j => rank(mn[i]) < rank(mn[j])

\* merged is previous, then the entries of new that previous does not hold,
\* each once and in the order of new
PreviousFirstPlain(merged, previous, new) ==
    /\ Len(merged) >= Len(previous)
    /\ SubSeq(merged, 1, Len(previous)) = previous
    /\ LET added == SubSeq(merged, Len(previous) + 1, Len(merged))
       IN /\ NoDup(added)
          /\ Range(added) = Range(new) \ Range(previous)
          /\ \A i, j \in 1..Len(added) :
               i < j => FirstIdx(new, added[i]) < FirstIdx(new, added[j])

\* the new entries in their order, then the previous entries that no new
\* entry duplicates
NewThenPreviousPlain(previous, new) ==
    LET NotInNew(x) == x \notin Range(new) IN new \o SelectSeq(previous, NotInNew)

NewThenPreviousByName(previous, new) ==
    LET NotInNew(x) == x.name \notin Range(Names(new))
    IN new \o SelectSeq(previous, NotInNew)

\* the lists of the two analyses repeat no entry
NoRepeats(a) ==
    /\ NoDup(Names(a.identified_features)) /\ NoDup(Names(a.suggested_modules))
    /\ NoDup(a.technical_risks) /\ NoDup(a.business_risks)
    /\ NoDup(a.business_objectives)

\* C20 (as stated): when neither analysis repeats an entry, every list field
\* of the merged analysis is the new entries in their order followed by the
\* previous entries that no new entry duplicates.
MergeNewFirst ==
    (Returned("_merge_analyses") /\ NoRepeats(call.previous) /\ NoRepeats(call.new)) =>
      /\ ret.identified_features =
           NewThenPreviousByName(call.previous.identified_features,
                                 call.new.identified_features)
      /\ ret.suggested_modules =
           NewThenPreviousByName(call.previous.suggested_modules,
                                 call.new.suggested_modules)
      /\ ret.technical_risks =
           NewThenPreviousPlain(call.previous.technical_risks,
                                call.new.technical_risks)
      /\ ret.business_risks =
           NewThenPreviousPlain(call.previous.business_risks,
                                call.new.business_risks)
      /\ ret.business_objectives =
           NewThenPreviousPlain(call.previous.business_objectives,
                                call.new.business_objectives)

\* C20 (amended): identified_features and suggested_modules hold each name
\* once, the new entries first in their order, then the previous entries
\* with other names; technical_risks, business_risks and business_objectives
\* are the previous list followed by the new entries it does not hold.
MergeOrder ==
    Returned("_merge_analyses") =>
      /\ NewFirstByName(ret.identified_features,
                        call.previous.identified_features,
                        call.new.identified_features)
      /\ NewFirstByName(ret.suggested_modules, call.previous.suggested_modules,
                        call.new.suggested_modules)
      /\ PreviousFirstPlain(ret.technical_risks, call.previous.technical_risks,
                            call.new.technical_risks)
      /\ PreviousFirstPlain(ret.business_risks, call.previous.business_risks,
                            call.new.business_risks)
      /\ PreviousFirstPlain(ret.business_objectives,
                            call.previous.business_objectives,
                            call.new.business_objectives)

\* previous risks [Risk A] merged with new [Risk B], and a feature that both
\* analyses name
RiskAThenRiskB ==
    /\ Returned("_merge_analyses")
    /\ call.previous.technical_risks = <<"Risk A">>
    /\ call.new.technical_risks = <<"Risk B">>
    /\ ret.technical_risks = <<"Risk A", "Risk B">>
    /\ Names(call.previous.identified_features) = <<"Login", "Search">>
    /\ Names(call.new.identified_features) = <<"Search">>
    /\ Len(ret.identified_features) = 2
    /\ ret.identified_features[1] = [name |-> "Search", of |-> "new"]

\* C21: merging the same new analysis a second time into the result of the
\* merge gives the result again: no list grows and no field changes.
MergeIdempotent ==
    Returned("_merge_analyses") => MergeAnalyses(ret, call.new) = ret

\* a merge that added an entry to each kind of list and took the new summary
MergedWithNewEntries ==
    /\ Returned("_merge_analyses")
    /\ call.previous.technical_risks = <<"Risk A">>
    /\ call.new.technical_risks = <<"Risk A", "Risk B">>
    /\ ret.technical_risks = <<"Risk A", "Risk B">>
    /\ Names(call.previous.identified_features) = <<"Login">>
    /\ Names(call.new.identified_features) = <<"Search", "Login">>
    /\ Len(ret.identified_features) = 2
    /\ MergeAnalyses(ret, call.new) = ret

\* C22: when both analyses carry a tech-stack recommendation (or a resource
\* estimation) and a sub-field of the new one is empty, the merged analysis
\* keeps the previous value of that sub-field.
EmptySubFieldsKeepPrevious ==
    Returned("_merge_analyses") =>
      /\ (/\ call.previous.tech_stack_recommendation.exists
          /\ call.new.tech_stack_recommendation.exists
          /\ call.new.tech_stack_recommendation.database = <<>>)
           => ret.tech_stack_recommendation.database =
                 call.previous.tech_stack_recommendation.database
      /\ (/\ call.previous.resource_estimation.exists
          /\ call.new.resource_estimation.exists
          /\ call.new.resource_estimation.estimated_timeline = "")
           => ret.resource_estimation.estimated_timeline =
                 call.previous.resource_estimation.estimated_timeline

\* C23: executive_summary and architecture_overview of the merged analysis
\* are the new value when it is not empty and the previous value otherwise.
ScalarsPreferNonEmptyNew ==
    Returned("_merge_analyses") =>
      /\ ret.executive_summary =
           IF call.new.executive_summary # "" THEN call.new.executive_summary
           ELSE call.previous.executive_summary
      /\ ret.architecture_overview =
           IF call.new.architecture_overview # ""
           THEN call.new.architecture_overview
           ELSE call.previous.architecture_overview

\* an empty new summary left the previous summary in place while the new
\* architecture overview replaced the previous one
EmptySummaryKeepsPrevious ==
    /\ Returned("_merge_analyses")
    /\ call.new.executive_summary = ""
    /\ call.previous.executive_summary = "previous"
    /\ ret.executive_summary = "previous"
    /\ call.previous.architecture_overview = "previous"
    /\ ret.architecture_overview = "new"

\* C24: analysis_version never decreases; a successful analyze_workspace
\* run, merging or not, adds exactly 1 to it, and a run that fails leaves the
\* persisted analysis_version and analysis as they were.
VersionFollowsSuccessfulRuns ==
    [][/\ workspace'.analysis_version >= workspace.analysis_version
       /\ lastOp'.op = "analyze_workspace" =>
            IF lastOp'.result = "ok"
            THEN workspace'.analysis_version = workspace.analysis_version + 1
            ELSE /\ workspace'.analysis_version = workspace.analysis_version
                 /\ workspace'.analysis = workspace.analysis]_vars

\* v2 is v1 with one section put in at the end or in front of a heading:
\* a heading whose key v1 does not have, after any blank lines and followed
\* by lines that are not headings
IsSectionBlock(b, prd) ==
    \E h \in 1..Len(b) :
       /\ b[h].heading
       /\ SectionKey(Strip(b[h].text)) \notin DOMAIN ParsePrdSections(prd)
       /\ \A i \in 1..Len(b) : /\ i < h => b[i] = TextLine(<<>>)
                               /\ i > h => ~b[i].heading

AddsOneSection(v1, v2) ==
    /\ Len(v2) > Len(v1)
    /\ \E i \in 0..Len(v1) :
         LET n == Len(v2) - Len(v1)
         IN /\ i = Len(v1) \/ v1[i + 1].heading
            /\ IsSectionBlock(SubSeq(v2, i + 1, i + n), v1)
            /\ v2 = SubSeq(v1, 1, i) \o SubSeq(v2, i + 1, i + n)
                       \o SubSeq(v1, i + 1, Len(v1))

\* C25: compare_prd_versions puts every section key of the two versions in
\* exactly one of added, removed, modified and unchanged, the four counts add
\* up to the number of distinct keys, and when v2 is v1 with one section
\* added it reports 1 added, 0 modified and as many unchanged as v1 has
\* sections.
DiffPartitionsSections ==
    (Returned("compare_prd_versions") /\ ~ret.error) =>
      LET keys == DOMAIN ParsePrdSections(call.prd1)
                    \cup DOMAIN ParsePrdSections(call.prd2)
      IN /\ ret.added \cup ret.removed \cup ret.modified \cup ret.unchanged = keys
         /\ ret.sections_added + ret.sections_removed + ret.sections_modified
              + ret.sections_unchanged = Cardinality(keys)
         /\ AddsOneSection(call.prd1, call.prd2) =>
              /\ ret.sections_added = 1
              /\ ret.sections_modified = 0
              /\ ret.sections_unchanged =
                    Cardinality(DOMAIN ParsePrdSections(call.prd1))

\* a section was added to a version that had one section
OneSectionAdded ==
    /\ Returned("compare_prd_versions")
    /\ call.prd1 = <<HeadingLine(<<"Scope">>), TextLine(<<"alpha">>)>>
    /\ AddsOneSection(call.prd1, call.prd2)
    /\ Len(call.prd2) = 3
    /\ ret.added = {<<"open", "_", "risks">>}
    /\ ret.unchanged = {<<"scope">>}
    /\ ret.sections_modified = 0

\* the positions of the PDF, audio and text files of a folder
SupportedFiles(folder) ==
    {i \in 1..Len(folder) : folder[i].kind \in {"pdf", "audio", "text"}}

\* C26: process_inputs_folder never raises because a supported file could
\* not be read or transcribed: it returns whenever the folder holds a
\* supported file, with one part per supported file in folder order, an
\* error marker for each file that failed and the content of every other.
FailedFilesBecomeMarkers ==
    (Returned("process_inputs_folder") /\ call.exists) =>
      /\ ret.raised = "none" <=> SupportedFiles(call.folder) # {}
      /\ ret.raised = "none" =>
           /\ {ret.parts[j].name : j \in 1..Len(ret.parts)}
                 = SupportedFiles(call.folder)
           /\ \A j \in 1..Len(ret.parts) :
                /\ j > 1 => ret.parts[j - 1].name < ret.parts[j].name
                /\ ret.parts[j].content.of = ret.parts[j].name
                /\ ret.parts[j].content.error
                     <=> call.folder[ret.parts[j].name].reads = "fails"

\* a PDF that cannot be read next to a text file that can
MarkerBesideContent ==
    /\ Returned("process_inputs_folder")
    /\ call.folder = <<[kind |-> "pdf", reads |-> "fails"],
                       [kind |-> "text", reads |-> "ok"]>>
    /\ ret.raised = "none"
    /\ ret.parts[1].content.error
    /\ ~ret.parts[2].content.error

\* the index of the last record of key k that is not skipped and not blank
LastAnswered(answers, k) ==
    LET hits == {i \in 1..Len(answers) :
                    /\ answers[i].section_key = k
                    /\ ~answers[i].skipped
                    /\ Strip(answers[i].answer) # <<>>}
    IN IF hits = {} THEN 0 ELSE CHOOSE i \in hits : \A j \in hits : j <= i

\* C30: the answer map build_prd passes to the assembly is the caller's
\* answers, overridden key by key by the session answers that are neither
\* skipped nor empty or whitespace-only.
SessionAnswersOverrideCaller ==
    Returned("all_answers") =>
      \A k \in Keys :
         LET last == LastAnswered(call.answers, k)
         IN IF last # 0
            THEN /\ k \in DOMAIN ret.all_answers
                 /\ ret.all_answers[k] = call.answers[last].answer
            ELSE IF k \in DOMAIN call.user_answers
            THEN /\ k \in DOMAIN ret.all_answers
                 /\ ret.all_answers[k] = call.user_answers[k]
            ELSE k \notin DOMAIN ret.all_answers

\* the caller answered both keys; the session has a real answer for one and a
\* whitespace-only answer for the other
BlankSessionAnswerLeavesCaller ==
    /\ Returned("all_answers")
    /\ call.user_answers = [k \in Keys |-> <<"Carol">>]
    /\ call.answers = <<AnswerEntry("personas_roles", <<" ", "Bob">>, FALSE),
                        AnswerEntry("ux_flows", <<" ">>, FALSE)>>
    /\ ret.all_answers["personas_roles"] = <<" ", "Bob">>
    /\ ret.all_answers["ux_flows"] = <<"Carol">>

\* C27: start_interactive_session, served from the cache or generating, and
\* regenerate leave the answers list of the session as it was.
QuestionRunsKeepAnswers ==
    [][lastOp'.op \in {"start", "regenerate"}
         => answersFile'.answers = answersFile.answers]_vars

\* questions were regenerated for a session that holds an answer
RegeneratedWithAnswers ==
    /\ lastOp.op = "regenerate"
    /\ lastOp.result = "ok"
    /\ answersFile.regeneration_count = 1
    /\ answersFile.answers # <<>>

\* C28: interactive_session_active is true only while a session exists whose
\* status is in_progress; it is never true for a completed session.
ActiveOnlyInProgress ==
    st.interactive_session_active =>
        (answersFile.exists /\ answersFile.status = "in_progress")

\* C29: a create request never rewrites the persisted state of a project that
\* exists already: every create gets an id of its own, also within one clock
\* second.
CreateKeepsExistingProjects ==
    [][lastOp'.op = "create_project" => (~overwritten' /\ st' = st)]_vars

====
